---- MODULE Spec2Model ----
(***************************************************************************)
(* Model of app/grasshopper/controller.py: GrasshopperController.          *)
(*                                                                         *)
(* Text is a sequence of one-character strings.  A Python float is held    *)
(* as an integer number of tenths (0.5 is 5, 14 is 140), so that the       *)
(* radii and heights of the scene and the values read from output.txt      *)
(* live in one number type and doubling is exact.                          *)
(***************************************************************************)
EXTENDS Integers, Sequences, FiniteSets, TLC

\* ------------------------------------------------------------------ bounds
\* The largest number of triangle-descriptor lines in a generated output.txt.
MaxTriangles == 2

\* ------------------------------------------------------------------ text

Digits == <<"0", "1", "2", "3", "4", "5", "6", "7", "8", "9">>

IsDigit(c) == \E i \in 1..Len(Digits) : Digits[i] = c

DigitValue(c) == (CHOOSE i \in 1..Len(Digits) : Digits[i] = c) - 1

RECURSIVE JoinWith(_, _)
\* sep.join(parts)
JoinWith(sep, parts) ==
  IF parts = <<>> THEN <<>>
  ELSE IF Len(parts) = 1 THEN parts[1]
  ELSE parts[1] \o sep \o JoinWith(sep, Tail(parts))

\* s[1:-1]: the text without its first and its last character.
StripEnds(s) == IF Len(s) <= 2 THEN <<>> ELSE SubSeq(s, 2, Len(s) - 1)

StartsWithAt(s, sep, i) ==
  /\ i + Len(sep) - 1 <= Len(s)
  /\ SubSeq(s, i, i + Len(sep) - 1) = sep

RECURSIVE SplitAcc(_, _, _, _)
SplitAcc(s, sep, i, cur) ==
  IF i > Len(s) THEN <<cur>>
  ELSE IF StartsWithAt(s, sep, i)
       THEN <<cur>> \o SplitAcc(s, sep, i + Len(sep), <<>>)
       ELSE SplitAcc(s, sep, i + 1, Append(cur, s[i]))

\* str.split(sep): the pieces between the non-overlapping occurrences of sep,
\* found left to right; always at least one piece.
split(s, sep) == SplitAcc(s, sep, 1, <<>>)

\* A final empty piece is no line.
DropFinalEmpty(parts) ==
  IF parts[Len(parts)] = <<>> THEN SubSeq(parts, 1, Len(parts) - 1) ELSE parts

\* str.splitlines() for "\n" line ends: no piece for a final line end.
splitlines(s) == DropFinalEmpty(split(s, <<"\n">>))

RECURSIVE LStrip(_)
LStrip(s) == IF s # <<>> /\ Head(s) = " " THEN LStrip(Tail(s)) ELSE s

RECURSIVE RStrip(_)
RStrip(s) ==
  IF s # <<>> /\ s[Len(s)] = " " THEN RStrip(SubSeq(s, 1, Len(s) - 1)) ELSE s

\* The surrounding whitespace float() ignores.
Strip(s) == RStrip(LStrip(s))

RECURSIVE DigitsValue(_)
\* The number a run of digits denotes.
DigitsValue(ds) ==
  IF ds = <<>> THEN 0
  ELSE 10 * DigitsValue(SubSeq(ds, 1, Len(ds) - 1)) + DigitValue(ds[Len(ds)])

AllDigits(ds) == \A i \in 1..Len(ds) : IsDigit(ds[i])

\* Where float() raises ValueError.
NotFloat == [ok |-> FALSE, val |-> 0]

\* The digits before and after the point: at least one digit in all.  The
\* value is kept to one digit after the point.
FloatDigits(neg, int, frac) ==
  IF AllDigits(int) /\ AllDigits(frac) /\ Len(int) + Len(frac) >= 1
    THEN [ok |-> TRUE,
          val |-> (IF neg THEN 0 - 1 ELSE 1)
                  * (10 * DigitsValue(int) + (IF frac = <<>> THEN 0 ELSE DigitValue(frac[1])))]
  ELSE NotFloat

\* At most one point.
FloatParts(neg, parts) ==
  IF Len(parts) > 2 THEN NotFloat
  ELSE FloatDigits(neg, parts[1], IF Len(parts) = 2 THEN parts[2] ELSE <<>>)

\* An optional sign first.
FloatSigned(s) ==
  FloatParts(s # <<>> /\ Head(s) = "-",
             split(IF s # <<>> /\ Head(s) \in {"-", "+"} THEN Tail(s) ELSE s, <<".">>))

\* float(text) over the characters digit, sign, point and blank: surrounding
\* blanks are ignored, then an optional sign, then digits with at most one
\* point and at least one digit.  ok is FALSE where float() raises ValueError;
\* val is the number in tenths.
Float(text) == FloatSigned(Strip(text))

RECURSIVE NatStr(_)
NatStr(n) ==
  IF n < 10 THEN <<Digits[n + 1]>> ELSE Append(NatStr(n \div 10), Digits[(n % 10) + 1])

\* str(n) of a Python int, as an f-string formats it.
Str(n) == IF n < 0 THEN <<"-">> \o NatStr(0 - n) ELSE NatStr(n)


\* ------------------------------------------------------------------ geometry

Point(x, y, z) == [x |-> x, y |-> y, z |-> z]

Line(start_point, end_point) == [start_point |-> start_point, end_point |-> end_point]

\* Material(name, color=..., threejs_opacity=...); opacity "default" where the
\* code passes none.
Material(name, color, opacity) == [name |-> name, color |-> color, opacity |-> opacity]

\* The material of a shape the code sets none on.
NoMaterial == Material("none", "none", "default")

\* CircularExtrusion(radius, line); the radius is in tenths.
CircularExtrusion(radius, line) ==
  [kind |-> "circular", size |-> <<radius>>, line |-> line, material |-> NoMaterial]

\* RectangularExtrusion(width, height, line); the sizes are in tenths.
RectangularExtrusion(width, height, line) ==
  [kind |-> "rectangular", size |-> <<width, height>>, line |-> line,
   material |-> NoMaterial]

WithMaterial(shape, material) == [shape EXCEPT !.material = material]

\* ------------------------------------------------------------------ parse_triangle_string

\* Point(coordinates[0], coordinates[1], coordinates[2]) of the list the
\* comprehension built: every component went through float() first
\* (ValueError), then the first three are picked (IndexError when fewer).
PointOf(coordinates) ==
  IF \E i \in 1..Len(coordinates) : ~coordinates[i].ok
    THEN [err |-> "ValueError", point |-> Point(0, 0, 0)]
  ELSE IF Len(coordinates) < 3
    THEN [err |-> "IndexError", point |-> Point(0, 0, 0)]
  ELSE [err |-> "none",
        point |-> Point(coordinates[1].val, coordinates[2].val, coordinates[3].val)]

\* [float(coordinate_str) for coordinate_str in point_str.split(',')]
Coordinates(coordinate_strs) ==
  [i \in 1..Len(coordinate_strs) |-> Float(coordinate_strs[i])]

\* One pass of the loop body of parse_triangle_string.
ParsePoint(point_str) == PointOf(Coordinates(split(point_str, <<",">>)))

\* The loop ends at the first point substring that raises; otherwise the
\* points are kept in order.
PointsOf(each) ==
  IF \E i \in 1..Len(each) : each[i].err # "none"
    THEN [err |-> each[CHOOSE i \in 1..Len(each) :
                         /\ each[i].err # "none"
                         /\ \A j \in 1..(i - 1) : each[j].err = "none"].err,
          points |-> <<>>]
  ELSE [err |-> "none", points |-> [i \in 1..Len(each) |-> each[i].point]]

\* The for loop of parse_triangle_string over the point substrings.
ParsePoints(point_strs) ==
  PointsOf([i \in 1..Len(point_strs) |-> ParsePoint(point_strs[i])])

\* The delimiter between two point groups.
GroupDelimiter == <<"}", ",", "{">>

\* The point substrings of a descriptor line.
PointStrings(triangle_string) == split(StripEnds(triangle_string), GroupDelimiter)

\* return points[0], points[1], points[2]
ReturnPoints(points) ==
  IF Len(points) < 3 THEN [err |-> "IndexError", points |-> <<>>]
  ELSE [err |-> "none", points |-> <<points[1], points[2], points[3]>>]

\* The loop's error if it raised, the return statement otherwise.
LoopThenReturn(parsed) ==
  IF parsed.err # "none" THEN parsed ELSE ReturnPoints(parsed.points)

parse_triangle_string(triangle_string) ==
  LoopThenReturn(ParsePoints(PointStrings(triangle_string)))

\* ------------------------------------------------------------------ generate_geometry_group_from_triangles

\* The third beam drawn like the second.
TriangleStrutsRepeated(point_a, point_b, point_c) ==
  << CircularExtrusion(5, Line(point_a, point_b)),
     CircularExtrusion(5, Line(point_a, point_c)),
     CircularExtrusion(5, Line(point_a, point_c)) >>

\* The three beams of one triangle, in the order the loop body adds them.
TriangleStruts(point_a, point_b, point_c) ==
  << CircularExtrusion(5, Line(point_a, point_b)),
     CircularExtrusion(5, Line(point_a, point_c)),
     CircularExtrusion(5, Line(point_b, point_c)) >>

Origin == Point(0, 0, 0)

\* The slab with its two sizes exchanged.
field_objSwapped(field_length, field_width) ==
  WithMaterial(RectangularExtrusion(field_length, field_width, Line(Origin, Point(0, 0, 1))),
               Material("grass", "green", "default"))

field_obj(field_length, field_width) ==
  WithMaterial(RectangularExtrusion(field_width, field_length, Line(Origin, Point(0, 0, 1))),
               Material("grass", "green", "default"))

mid_line(field_length) ==
  WithMaterial(RectangularExtrusion(10, field_length, Line(Origin, Point(0, 0, 4))),
               Material("line", "white", "default"))

mid_circle_obj ==
  WithMaterial(CircularExtrusion(140, Line(Origin, Point(0, 0, 2))),
               Material("line", "white", "0.9"))

mid_circle_inside_obj ==
  WithMaterial(CircularExtrusion(120, Line(Origin, Point(0, 0, 3))),
               Material("grass", "green", "1"))

mid_point_obj ==
  WithMaterial(CircularExtrusion(15, Line(Origin, Point(0, 0, 4))),
               Material("line", "white", "0.9"))

\* The inner disk added before the outer ring.
FieldShapesDiskFirst(field_length, field_width) ==
  << field_obj(field_length, field_width), mid_line(field_length),
     mid_circle_inside_obj, mid_circle_obj, mid_point_obj >>

\* The five shapes added after the loop, in the order of the add calls.
FieldShapes(field_length, field_width) ==
  << field_obj(field_length, field_width), mid_line(field_length),
     mid_circle_obj, mid_circle_inside_obj, mid_point_obj >>

\* ------------------------------------------------------------------ inputs

\* A component of a point as output.txt may hold it: its text, whether float()
\* takes it, and the number (in tenths) it denotes.
Comp(text, num, val) == [text |-> text, num |-> num, val |-> val]

c0 == Comp(<<"0">>, TRUE, 0)
c1 == Comp(<<"1">>, TRUE, 10)
c2 == Comp(<<"2">>, TRUE, 20)
cBlank0 == Comp(<<" ", "0">>, TRUE, 0)
cMinus1 == Comp(<<"-", "1">>, TRUE, -10)
cHalf == Comp(<<"2", ".", "5">>, TRUE, 25)
cBad == Comp(<<"x">>, FALSE, 0)

\* The triangles of the two examples of the documentation, and one with a
\* blank after each comma (the docstring's form), a sign and a decimal point.
TriangleA == << <<c0, c0, c0>>, <<c1, c1, c1>>, <<c2, c2, c2>> >>
TriangleB == << <<c0, c0, c0>>, <<c1, c0, c0>>, <<c0, c1, c0>> >>
TriangleC == << <<c0, cBlank0, cBlank0>>, <<cMinus1, cHalf, c1>>, <<c2, c1, c0>> >>

\* Descriptors that are no triangle: the wrong number of point groups, the
\* wrong number of components in a group, a component that is no number.
NoGroups == << >>
TwoGroups == << <<c0, c0, c0>>, <<c1, c1, c1>> >>
FourGroups == << <<c0, c0, c0>>, <<c1, c1, c1>>, <<c2, c2, c2>>, <<c1, c0, c0>> >>
TwoComponents == << <<c0, c0, c0>>, <<c1, c1>>, <<c2, c2, c2>> >>
FourComponents == << <<c0, c0, c0>>, <<c1, c1, c1, c2>>, <<c2, c2, c2>> >>
NonNumeric == << <<c0, c0, c0>>, <<c1, cBad, c1>>, <<c2, c2, c2>> >>

Descriptors ==
  {TriangleA, TriangleB, TriangleC, NoGroups, TwoGroups, FourGroups,
   TwoComponents, FourComponents, NonNumeric}

\* Exactly three point groups of exactly three numeric components each.
WellFormedDescriptor(d) ==
  /\ Len(d) = 3
  /\ \A g \in 1..Len(d) : Len(d[g]) = 3 /\ \A k \in 1..Len(d[g]) : d[g][k].num

\* The line of output.txt that writes descriptor d: {x,y,z},{x,y,z},...
DescriptorLine(d) ==
  <<"{">>
  \o JoinWith(GroupDelimiter,
              [g \in 1..Len(d) |-> JoinWith(<<",">>, [k \in 1..Len(d[g]) |-> d[g][k].text])])
  \o <<"}">>

\* The point a well-formed group denotes.
GroupPoint(g) == Point(g[1].val, g[2].val, g[3].val)

\* The head of output.txt: the seat count (any text), half the field's width
\* and half its length, and whether the file ends with a line end.
Header(seats, width, length, eol) ==
  [seats |-> seats, width |-> width, length |-> length, eol |-> eol]

HeaderA == Header(<<"1", "2">>, Comp(<<"5", ".", "0">>, TRUE, 50),
                  Comp(<<"1", "0", ".", "0">>, TRUE, 100), TRUE)
HeaderB == Header(<<"n", "/", "a">>, Comp(<<"7">>, TRUE, 70), Comp(<<"3">>, TRUE, 30), FALSE)
HeaderBadWidth == Header(<<"1", "2">>, cBad, Comp(<<"3">>, TRUE, 30), TRUE)
HeaderBadLength == Header(<<"1", "2">>, Comp(<<"7">>, TRUE, 70), Comp(<<>>, FALSE, 0), TRUE)

Headers == {HeaderA, HeaderB, HeaderBadWidth, HeaderBadLength}

\* What the worker may be asked to write: a head and its descriptors, or only
\* the first `cut` lines of that (cut < 3: a file that is too short).
Content(header, descriptors, cut) ==
  [header |-> header, descriptors |-> descriptors, cut |-> cut]

\* The number of lines before the first descriptor: grass_hopper_data[3:].
Whole == 3

DescriptorLists == UNION {[1..n -> Descriptors] : n \in 0..MaxTriangles}

Contents ==
  {Content(h, ds, Whole) : h \in Headers, ds \in DescriptorLists}
  \cup {Content(HeaderA, << >>, cut) : cut \in 0..2}

AllLines(c) ==
  <<c.header.seats, c.header.width.text, c.header.length.text>>
  \o [k \in 1..Len(c.descriptors) |-> DescriptorLine(c.descriptors[k])]

ContentLines(c) == IF c.cut < Whole THEN SubSeq(AllLines(c), 1, c.cut) ELSE AllLines(c)

\* The lines as a text, with a line end after the last one where eol says so.
LinesText(lines, eol) ==
  JoinWith(<<"\n">>, lines) \o (IF eol /\ lines # <<>> THEN <<"\n">> ELSE <<>>)

\* The text of output.txt for content c.
OutputText(c) == LinesText(ContentLines(c), c.header.eol)

\* A Result Document as the specification of the format has it.
WellFormedContent(c) ==
  /\ c.cut = Whole
  /\ c.header.width.num /\ c.header.length.num
  /\ \A k \in 1..Len(c.descriptors) : WellFormedDescriptor(c.descriptors[k])

\* The parameter fields in the order the input line is documented to have.
Fields ==
  <<"pitch_width", "Offset", "Shape", "Depth", "Asymmetry_length", "Asymmetry_width",
    "Height">>

FieldSet == {Fields[i] : i \in 1..Len(Fields)}

\* Design parameters: all fields different, and each field in turn the only
\* one that differs from the rest.
DistinctParams == [f \in FieldSet |-> CHOOSE i \in 1..Len(Fields) : Fields[i] = f]

DesignParameters ==
  {DistinctParams}
  \cup {[f \in FieldSet |-> IF f = g THEN 120 ELSE 0 - 3] : g \in FieldSet}

\* ------------------------------------------------------------------ state

\* The calls of visualize the platform may run side by side.
Requests == {"r1", "r2"}

VARIABLES
  pc,             \* where each call of visualize stands
  params,         \* its params.input
  worker_result,  \* what the worker computes for it once it runs
  open_files,     \* the bundled files the call holds open
  locals,         \* the local variables of visualize and of the call it makes
  executions,     \* the GenericAnalysis executions the call has started
  outcome         \* what the call hands to its caller: a result or an error

vars == <<pc, params, worker_result, open_files, locals, executions, outcome>>

\* The local variables before any assignment, and after the frame is gone.
NoLocals ==
  [ rhino_file_buffer |-> <<>>, grasshopper_file_buffer |-> <<>>,
    input_str |-> <<>>, files |-> <<>>,
    grass_hopper_data |-> <<>>, amount_of_seats |-> <<>>,
    field_width |-> 0, field_length |-> 0, triangle_strings |-> <<>>,
    seats_amount |-> <<>>,
    done |-> 0, points |-> <<>>, geometry_group |-> <<>> ]

NoOutcome == [error |-> "none", returned |-> FALSE, geometry |-> <<>>, data |-> <<>>]

\* The bytes of a bundled file.
FileBytes(name) == <<"bytes of", name>>

\* An exception leaves visualize: the frame is gone, the caller gets the error.
Raise(r, error) ==
  /\ pc' = [pc EXCEPT ![r] = "failed"]
  /\ locals' = [locals EXCEPT ![r] = NoLocals]
  /\ outcome' = [outcome EXCEPT ![r] = [NoOutcome EXCEPT !.error = error]]

\* A file opened without a with block: nothing closes it.
ExitWithout(held, name) == held

\* What the end of a with block leaves open of the files held.
ExitWith(held, name) == held \ {name}

\* ------------------------------------------------------------------ visualize

\* open(.../'sample_app.3dm', 'rb')
OpenRhino(r) ==
  /\ pc[r] = "open_rhino"
  /\ \/ /\ open_files' = [open_files EXCEPT ![r] = @ \cup {"sample_app.3dm"}]
        /\ pc' = [pc EXCEPT ![r] = "read_rhino"]
        /\ UNCHANGED <<locals, outcome>>
     \/ /\ Raise(r, "OSError")
        /\ UNCHANGED open_files
  /\ UNCHANGED <<params, worker_result, executions>>

\* rhino_file_buffer = BytesIO(rhino_file.read()), and the end of the with block
ReadRhino(r) ==
  /\ pc[r] = "read_rhino"
  /\ open_files' = [open_files EXCEPT ![r] = ExitWith(@, "sample_app.3dm")]
  /\ \/ /\ locals' = [locals EXCEPT ![r].rhino_file_buffer = FileBytes("sample_app.3dm")]
        /\ pc' = [pc EXCEPT ![r] = "open_grasshopper"]
        /\ UNCHANGED outcome
     \/ Raise(r, "OSError")
  /\ UNCHANGED <<params, worker_result, executions>>

\* open(.../'sample_app_gh.gh', 'rb')
OpenGrasshopper(r) ==
  /\ pc[r] = "open_grasshopper"
  /\ \/ /\ open_files' = [open_files EXCEPT ![r] = @ \cup {"sample_app_gh.gh"}]
        /\ pc' = [pc EXCEPT ![r] = "read_grasshopper"]
        /\ UNCHANGED <<locals, outcome>>
     \/ /\ Raise(r, "OSError")
        /\ UNCHANGED open_files
  /\ UNCHANGED <<params, worker_result, executions>>

\* grasshopper_file_buffer = BytesIO(grasshopper_file.read()), and the end of
\* the with block
ReadGrasshopper(r) ==
  /\ pc[r] = "read_grasshopper"
  /\ open_files' = [open_files EXCEPT ![r] = ExitWith(@, "sample_app_gh.gh")]
  /\ \/ /\ locals' = [locals EXCEPT
                        ![r].grasshopper_file_buffer = FileBytes("sample_app_gh.gh")]
        /\ pc' = [pc EXCEPT ![r] = "build_files"]
        /\ UNCHANGED outcome
     \/ Raise(r, "OSError")
  /\ UNCHANGED <<params, worker_result, executions>>

\* Depth written before Shape.
InputFieldsDepthFirst ==
  <<"pitch_width", "Offset", "Depth", "Shape", "Asymmetry_length", "Asymmetry_width",
    "Height">>

\* The fields of params.input in the order the f-string names them.
InputFields ==
  <<"pitch_width", "Offset", "Shape", "Depth", "Asymmetry_length", "Asymmetry_width",
    "Height">>

\* The f-string of visualize.
input_str(input) ==
  JoinWith(<<",", " ">>, [i \in 1..Len(InputFields) |-> Str(input[InputFields[i]])])

\* files = [('input.txt', ...), ('sample_app.3dm', ...), ('sample_app_gh.gh', ...)]
FileList(text, rhino_file_buffer, grasshopper_file_buffer) ==
  << [name |-> "input.txt", content |-> text],
     [name |-> "sample_app.3dm", content |-> rhino_file_buffer],
     [name |-> "sample_app_gh.gh", content |-> grasshopper_file_buffer] >>

\* Lines 53 to 59 with the text the f-string gave.
BuildFilesWith(r, text) ==
  /\ locals' = [locals EXCEPT
       ![r].input_str = text,
       ![r].files = FileList(text, locals[r].rhino_file_buffer,
                             locals[r].grasshopper_file_buffer)]
  /\ pc' = [pc EXCEPT ![r] = "execute"]
  /\ UNCHANGED <<params, worker_result, open_files, executions, outcome>>

BuildFiles(r) ==
  /\ pc[r] = "build_files"
  /\ BuildFilesWith(r, input_str(params[r]))

\* GenericAnalysis(files=files, executable_key="run_grasshopper",
\*                 output_filenames=["output.txt"]) and its execute(timeout=60)
GenericAnalysis(files) ==
  [files |-> files, executable_key |-> "run_grasshopper",
   output_filenames |-> <<"output.txt">>, timeout |-> 60]

\* The execution tried again after a failure, once.
RetryFailedExecute(r, error) ==
  IF Len(executions[r]) < 2
    THEN UNCHANGED <<pc, locals, outcome>>
  ELSE Raise(r, error)

\* Where visualize goes when execute raises.
AfterFailedExecute(r, error) == Raise(r, error)

Execute(r) ==
  /\ pc[r] = "execute"
  /\ executions' = [executions EXCEPT ![r] = Append(@, GenericAnalysis(locals[r].files))]
  /\ \/ /\ pc' = [pc EXCEPT ![r] = "get_output"]
        /\ UNCHANGED <<locals, outcome>>
     \/ AfterFailedExecute(r, "ExecutionError")
     \/ AfterFailedExecute(r, "TimeoutError")
  /\ UNCHANGED <<params, worker_result, open_files>>

\* get_output_file("output.txt"), TextIOWrapper(...).read().splitlines()
GetOutput(r) ==
  /\ pc[r] = "get_output"
  /\ locals' = [locals EXCEPT
       ![r].grass_hopper_data = splitlines(OutputText(worker_result[r]))]
  /\ pc' = [pc EXCEPT ![r] = "read_header"]
  /\ UNCHANGED <<params, worker_result, open_files, executions, outcome>>

\* The assignments from grass_hopper_data[0] to triangle_strings, in order:
\* the first that raises decides the error.
HeaderError(data) ==
  IF Len(data) < 1 THEN "IndexError"
  ELSE IF Len(data) < 2 THEN "IndexError"
  ELSE IF ~Float(data[2]).ok THEN "ValueError"
  ELSE IF Len(data) < 3 THEN "IndexError"
  ELSE IF ~Float(data[3]).ok THEN "ValueError"
  ELSE "none"

\* float(grass_hopper_data[1]) * 2
field_width(data) == Float(data[2]).val * 2

\* float(grass_hopper_data[2]) * 2
field_length(data) == Float(data[3]).val * 2

\* DataGroup(DataItem("Number of seats", amount_of_seats))
DataGroup(amount_of_seats) == <<[label |-> "Number of seats", value |-> amount_of_seats]>>

\* A group kept across calls instead of made by each: what another call has
\* added so far is in it.
SharedGroup ==
  IF \E q \in Requests : locals[q].geometry_group # <<>>
    THEN locals[CHOOSE q \in Requests : locals[q].geometry_group # <<>>].geometry_group
  ELSE <<>>

\* Group([])
EmptyGroup == <<>>

\* Lines 69 to 76 for the lines read and the error their parsing raises, and
\* the Group([]) the call of generate_geometry_group_from_triangles starts with.
ReadHeaderWith(r, data, error) ==
  /\ \/ /\ error # "none"
        /\ Raise(r, error)
     \/ /\ error = "none"
        /\ locals' = [locals EXCEPT
             ![r].amount_of_seats = data[1],
             ![r].field_width = field_width(data),
             ![r].field_length = field_length(data),
             ![r].triangle_strings = SubSeq(data, 4, Len(data)),
             ![r].seats_amount = DataGroup(data[1]),
             ![r].geometry_group = EmptyGroup]
        /\ pc' = [pc EXCEPT ![r] = "triangles"]
        /\ UNCHANGED outcome
  /\ UNCHANGED <<params, worker_result, open_files, executions>>

ReadHeader(r) ==
  /\ pc[r] = "read_header"
  /\ ReadHeaderWith(r, locals[r].grass_hopper_data, HeaderError(locals[r].grass_hopper_data))

\* The loop body for what parse_triangle_string gave.
AddTriangleWith(r, parsed) ==
  /\ \/ /\ parsed.err # "none"
        /\ Raise(r, parsed.err)
     \/ /\ parsed.err = "none"
        /\ locals' = [locals EXCEPT
             ![r].points = parsed.points,
             ![r].geometry_group =
                @ \o TriangleStruts(parsed.points[1], parsed.points[2], parsed.points[3]),
             ![r].done = @ + 1]
        /\ UNCHANGED <<pc, outcome>>
  /\ UNCHANGED <<params, worker_result, open_files, executions>>

\* One pass of the for loop of generate_geometry_group_from_triangles.
AddTriangle(r) ==
  /\ pc[r] = "triangles"
  /\ locals[r].done < Len(locals[r].triangle_strings)
  /\ AddTriangleWith(r, parse_triangle_string(
                          locals[r].triangle_strings[locals[r].done + 1]))

\* After the loop: the five field shapes, the return of the group, and
\* return GeometryAndDataResult(geometry_group, seats_amount).
Return(r) ==
  /\ pc[r] = "triangles"
  /\ locals[r].done = Len(locals[r].triangle_strings)
  /\ outcome' = [outcome EXCEPT ![r] =
       [ error |-> "none", returned |-> TRUE,
         geometry |-> locals[r].geometry_group
                      \o FieldShapes(locals[r].field_length, locals[r].field_width),
         data |-> locals[r].seats_amount ]]
  /\ locals' = [locals EXCEPT ![r] = NoLocals]
  /\ pc' = [pc EXCEPT ![r] = "returned"]
  /\ UNCHANGED <<params, worker_result, open_files, executions>>

\* ------------------------------------------------------------------ specifications

DefaultContent == Content(HeaderA, <<TriangleB>>, Whole)

\* One call of visualize: every design parameter record with one worker
\* result, and every worker result with one record.
InputCases ==
  (DesignParameters \X {DefaultContent}) \cup ({DistinctParams} \X Contents)

Init ==
  /\ pc = [r \in Requests |-> IF r = "r1" THEN "open_rhino" ELSE "idle"]
  /\ \E c \in InputCases :
       /\ params = [r \in Requests |-> IF r = "r1" THEN c[1] ELSE DistinctParams]
       /\ worker_result = [r \in Requests |-> IF r = "r1" THEN c[2] ELSE DefaultContent]
  /\ open_files = [r \in Requests |-> {}]
  /\ locals = [r \in Requests |-> NoLocals]
  /\ executions = [r \in Requests |-> <<>>]
  /\ outcome = [r \in Requests |-> NoOutcome]

Next ==
  \E r \in Requests :
    \/ OpenRhino(r)
    \/ ReadRhino(r)
    \/ OpenGrasshopper(r)
    \/ ReadGrasshopper(r)
    \/ BuildFiles(r)
    \/ Execute(r)
    \/ GetOutput(r)
    \/ ReadHeader(r)
    \/ AddTriangle(r)
    \/ Return(r)

Spec == Init /\ [][Next]_vars

\* Two calls of visualize side by side, each on one of a few worker results.
SmallContents ==
  { Content(HeaderA, << >>, Whole),
    Content(HeaderA, <<TriangleA>>, Whole),
    Content(HeaderB, <<TriangleB, TwoGroups>>, Whole),
    Content(HeaderA, << >>, 2) }

InitConcurrent ==
  /\ pc = [r \in Requests |-> "open_rhino"]
  /\ params = [r \in Requests |-> DistinctParams]
  /\ worker_result \in [Requests -> SmallContents]
  /\ open_files = [r \in Requests |-> {}]
  /\ locals = [r \in Requests |-> NoLocals]
  /\ executions = [r \in Requests |-> <<>>]
  /\ outcome = [r \in Requests |-> NoOutcome]

SpecConcurrent == InitConcurrent /\ [][Next]_vars

\* ------------------------------------------------------------------ properties

\* The call is over.
Terminal(r) == pc[r] \in {"returned", "failed"}

\* The call is over and it got as far as reading output.txt.
Interpreted(r) ==
  /\ Terminal(r)
  /\ outcome[r].error \in {"none", "IndexError", "ValueError"}

\* Nothing is handed to the caller.
NoResult(r) ==
  /\ ~outcome[r].returned
  /\ outcome[r].geometry = <<>>
  /\ outcome[r].data = <<>>

\* The points of the k-th descriptor of content c.
DescriptorPoints(c, k) ==
  {GroupPoint(c.descriptors[k][g]) : g \in 1..Len(c.descriptors[k])}

\* The scene of a well-formed content with N descriptors: 3N beams of radius
\* 0.5, those of the k-th descriptor at 3k-2..3k, then the five field shapes.
SceneOf(c, g) ==
  LET N == Len(c.descriptors)
  IN  /\ Len(g) = 3 * N + 5
      /\ \A k \in 1..N : \A j \in 1..3 :
           /\ g[3 * (k - 1) + j].kind = "circular"
           /\ g[3 * (k - 1) + j].size = <<5>>
           /\ g[3 * (k - 1) + j].line.start_point \in DescriptorPoints(c, k)
           /\ g[3 * (k - 1) + j].line.end_point \in DescriptorPoints(c, k)
      /\ g[3 * N + 1].kind = "rectangular" /\ g[3 * N + 1].material.name = "grass"
      /\ g[3 * N + 2].kind = "rectangular" /\ g[3 * N + 2].material.name = "line"
      /\ g[3 * N + 3].kind = "circular" /\ g[3 * N + 3].size = <<140>>
      /\ g[3 * N + 4].kind = "circular" /\ g[3 * N + 4].size = <<120>>
      /\ g[3 * N + 5].kind = "circular" /\ g[3 * N + 5].size = <<15>>

\* C1: a call that read a well-formed output.txt with N descriptor lines
\* returns, and its scene holds 3N + 5 shapes: the beams, grouped per triangle
\* in the order of the lines, then field slab, centerline strip, outer ring
\* (radius 14), inner disk (radius 12), center point (radius 1.5).
C1_SceneHasBeamsThenFieldShapes ==
  \A r \in Requests :
    (Interpreted(r) /\ WellFormedContent(worker_result[r]))
      => /\ outcome[r].returned
         /\ SceneOf(worker_result[r], outcome[r].geometry)

C1_Witness ==
  \E r \in Requests :
    /\ outcome[r].returned
    /\ WellFormedContent(worker_result[r])
    /\ Len(worker_result[r].descriptors) >= 2
    /\ worker_result[r].descriptors[1] # worker_result[r].descriptors[2]

\* C2: a descriptor line parse_triangle_string returned points for has
\* exactly 3 point groups (a line with another number of groups fails).
C2_OnlyThreeGroupsParse ==
  \A r \in Requests :
    (pc[r] = "triangles" /\ locals[r].done >= 1)
      => Len(PointStrings(locals[r].triangle_strings[locals[r].done])) = 3

\* C3: in a descriptor line parse_triangle_string returned points for, every
\* point substring has exactly 3 components (another number fails).
C3_OnlyThreeComponentsParse ==
  \A r \in Requests :
    (pc[r] = "triangles" /\ locals[r].done >= 1)
      => \A g \in 1..Len(PointStrings(locals[r].triangle_strings[locals[r].done])) :
           Len(split(PointStrings(locals[r].triangle_strings[locals[r].done])[g],
                     <<",">>)) = 3

\* C4: a call that read a malformed output.txt ends in an error and hands
\* nothing to its caller.
C4_MalformedOutputFails ==
  \A r \in Requests :
    (Interpreted(r) /\ ~WellFormedContent(worker_result[r]))
      => pc[r] = "failed" /\ outcome[r].error # "none" /\ NoResult(r)

\* C5: the worker is executed only with both bundled files read, no bundled
\* file is held open outside its with block, and a call that failed on a
\* bundled file has executed nothing.
C5_AssetsReadAndReleasedBeforeExecute ==
  \A r \in Requests :
    /\ \A i \in 1..Len(executions[r]) :
         /\ executions[r][i].files[2].content = FileBytes("sample_app.3dm")
         /\ executions[r][i].files[3].content = FileBytes("sample_app_gh.gh")
    /\ pc[r] \notin {"read_rhino", "read_grasshopper"} => open_files[r] = {}
    /\ outcome[r].error = "OSError" => executions[r] = <<>> /\ pc[r] = "failed"

C5_Witness ==
  \E r \in Requests :
    /\ pc[r] = "failed"
    /\ outcome[r].error = "OSError"
    /\ open_files[r] = {}

\* C6: a call executes the worker at most once, with timeout 60 and output
\* file output.txt; when the execution fails or times out the call has failed
\* with that error, has read no output and hands nothing to its caller.
C6_ExecutedOnceFailureIsFinal ==
  \A r \in Requests :
    /\ Len(executions[r]) <= 1
    /\ \A i \in 1..Len(executions[r]) :
         /\ executions[r][i].timeout = 60
         /\ executions[r][i].output_filenames = <<"output.txt">>
    /\ outcome[r].error \in {"ExecutionError", "TimeoutError"}
         => /\ pc[r] = "failed"
            /\ Len(executions[r]) = 1
            /\ locals[r] = NoLocals
            /\ NoResult(r)

C6_Witness ==
  \E r \in Requests :
    /\ pc[r] = "failed"
    /\ outcome[r].error = "TimeoutError"
    /\ Len(executions[r]) = 1

\* C7: in the scene returned, the beams of a well-formed k-th descriptor with
\* points A, B, C are exactly three, of radius 0.5, along A-B, A-C, B-C in
\* that order.
C7_StrutsJoinEveryPairOnce ==
  \A r \in Requests :
    outcome[r].returned
      => \A k \in 1..Len(worker_result[r].descriptors) :
           WellFormedDescriptor(worker_result[r].descriptors[k])
             => LET d == worker_result[r].descriptors[k]
                    g == outcome[r].geometry
                IN  /\ \A j \in 1..3 : g[3 * (k - 1) + j].kind = "circular"
                                       /\ g[3 * (k - 1) + j].size = <<5>>
                    /\ g[3 * k - 2].line = [start_point |-> GroupPoint(d[1]),
                                            end_point |-> GroupPoint(d[2])]
                    /\ g[3 * k - 1].line = [start_point |-> GroupPoint(d[1]),
                                            end_point |-> GroupPoint(d[3])]
                    /\ g[3 * k].line = [start_point |-> GroupPoint(d[2]),
                                        end_point |-> GroupPoint(d[3])]

C7_Witness ==
  \E r \in Requests :
    /\ outcome[r].returned
    /\ Len(worker_result[r].descriptors) = 2
    /\ worker_result[r].descriptors[2] = TriangleC

\* C8: in the scene of a well-formed output.txt the field slab is as wide as
\* twice the number of line 1 and as long as twice the number of line 2, and
\* the centerline strip is as long as the slab.
C8_FieldSizesAreDoubled ==
  \A r \in Requests :
    (outcome[r].returned /\ WellFormedContent(worker_result[r]))
      => LET c == worker_result[r]
             N == Len(worker_result[r].descriptors)
             g == outcome[r].geometry
         IN  /\ g[3 * N + 1].kind = "rectangular"
             /\ g[3 * N + 1].size = <<2 * c.header.width.val, 2 * c.header.length.val>>
             /\ g[3 * N + 2].kind = "rectangular"
             /\ g[3 * N + 2].size[2] = 2 * c.header.length.val

C8_Witness ==
  \E r \in Requests :
    /\ outcome[r].returned
    /\ WellFormedContent(worker_result[r])
    /\ worker_result[r].header.width.val # worker_result[r].header.length.val

\* The bundle for parameters p: input.txt, sample_app.3dm, sample_app_gh.gh in
\* that order, input.txt one line of 7 comma-separated fields that read back
\* as the parameters in the documented order.
BundleOf(p, files) ==
  /\ Len(files) = 3
  /\ files[1].name = "input.txt"
  /\ files[2].name = "sample_app.3dm"
  /\ files[3].name = "sample_app_gh.gh"
  /\ \A i \in 1..Len(files[1].content) : files[1].content[i] # "\n"
  /\ Len(split(files[1].content, <<",">>)) = 7
  /\ \A i \in 1..7 :
       /\ Float(split(files[1].content, <<",">>)[i]).ok
       /\ Float(split(files[1].content, <<",">>)[i]).val = 10 * p[Fields[i]]

\* C9: the bundle a call builds and the bundle the worker is executed with are
\* the bundle of the call's parameters.
C9_InputLineHasSevenFieldsInOrder ==
  \A r \in Requests :
    /\ locals[r].files # <<>> => BundleOf(params[r], locals[r].files)
    /\ \A i \in 1..Len(executions[r]) : BundleOf(params[r], executions[r][i].files)

C9_Witness ==
  \E r \in Requests :
    /\ executions[r] # <<>>
    /\ params[r]["Shape"] # params[r]["Depth"]
    /\ params[r]["Shape"] < 0

\* C10: two calls that read the same output.txt end alike: the same scene and
\* summary, or the same error.
C10_SameOutputSameOutcome ==
  \A r1 \in Requests : \A r2 \in Requests :
    ( /\ Interpreted(r1) /\ Interpreted(r2)
      /\ OutputText(worker_result[r1]) = OutputText(worker_result[r2]) )
      => outcome[r1] = outcome[r2]

C10_Witness ==
  \E r1 \in Requests : \E r2 \in Requests :
    /\ r1 # r2
    /\ outcome[r1].returned /\ outcome[r2].returned
    /\ worker_result[r1] = worker_result[r2]
    /\ Len(worker_result[r1].descriptors) >= 1

====
